---- MODULE Spec2Model ----
(***************************************************************************)
(* Model of the Spotify song recommender: the catalog client               *)
(* (SpotifyClient), the text normalizer (_clean, _ratio), the favorite     *)
(* resolver (_try_search_variants, resolve_favorite_to_artist) and the     *)
(* Standard pipeline (recommend_from_favorites) of app.py.                 *)
(*                                                                         *)
(* Python strings are sequences of one-character strings, so that strip,  *)
(* lower, split and _clean are computed and not assumed.  Floats are      *)
(* exact rationals [num, den].                                             *)
(***************************************************************************)
EXTENDS Integers, Sequences, FiniteSets, TLC

(* ------------------------------ bounds -------------------------------- *)
MaxFavs == 2          \* favorites supplied by the caller
MaxRecsBound == 2     \* max_recs ranges over 0..MaxRecsBound
MaxTime == 1          \* the clock runs over 0..MaxTime

(* ------------------------- program constants -------------------------- *)
AcceptThreshold == 72     \* accept_threshold = 72.0
ExpiresIn == 1            \* expires_in of the token payload, in clock units
None == "None"

(* ------------------------------ strings ------------------------------- *)
RECURSIVE Concat(_)
Concat(ss) == IF ss = <<>> THEN <<>> ELSE Head(ss) \o Concat(Tail(ss))

MapSeq(Op(_), s) == [k \in 1..Len(s) |-> Op(s[k])]

IsSpace(ch) == ch = " "

\* str.strip()
RECURSIVE lstrip(_)
lstrip(s) == IF s # <<>> /\ IsSpace(Head(s)) THEN lstrip(Tail(s)) ELSE s

RECURSIVE rstrip(_)
rstrip(s) ==
    IF s # <<>> /\ IsSpace(s[Len(s)]) THEN rstrip(SubSeq(s, 1, Len(s) - 1)) ELSE s

strip(s) == rstrip(lstrip(s))

\* str.lower()
lowerChar(ch) ==
    CASE ch = "A" -> "a"
      [] ch = "B" -> "b"
      [] ch = "C" -> "c"
      [] OTHER -> ch

lower(s) == MapSeq(lowerChar, s)

\* str.split()[0]: the first whitespace-delimited token ("" is never split)
RECURSIVE takeToken(_)
takeToken(s) ==
    IF s = <<>> \/ IsSpace(Head(s)) THEN <<>> ELSE <<Head(s)>> \o takeToken(Tail(s))

FirstToken(s) == IF s = <<>> THEN <<>> ELSE takeToken(lstrip(s))

\* unicodedata.normalize("NFKD", ch): an accented letter ("a_acute" is U+00E1)
\* decomposes into the base letter followed by a combining mark ("acute")
NFKD(ch) ==
    CASE ch = "a_acute" -> <<"a", "acute">>
      [] ch = "A_acute" -> <<"A", "acute">>
      [] OTHER -> <<ch>>

combining(ch) == ch = "acute"

IsAlnumOrSpace(ch) == ch \in {"a", "b", "c", "d", "x", "y", "0", "1", " "}

RECURSIVE collapse(_)
collapse(s) ==
    IF s = <<>> THEN <<>>
    ELSE IF IsSpace(Head(s)) /\ Tail(s) # <<>> /\ IsSpace(Head(Tail(s)))
         THEN collapse(Tail(s))
         ELSE <<Head(s)>> \o collapse(Tail(s))

\* _clean: NFKD, drop combining marks, lower, [^a-z0-9\s] -> " ",
\* \s+ -> " ", strip
_clean(s) ==
    LET s1 == Concat(MapSeq(NFKD, s))
        s2 == SelectSeq(s1, LAMBDA ch : ~combining(ch))
        s3 == lower(s2)
        s4 == [k \in 1..Len(s3) |-> IF IsAlnumOrSpace(s3[k]) THEN s3[k] ELSE " "]
    IN  strip(collapse(s4))

(* ------------------------------ scoring ------------------------------- *)
Max(a, b) == IF a >= b THEN a ELSE b

\* length of the longest common subsequence: the matched characters M
RECURSIVE LCS(_, _)
LCS(a, b) ==
    IF a = <<>> \/ b = <<>> THEN 0
    ELSE IF Head(a) = Head(b) THEN 1 + LCS(Tail(a), Tail(b))
    ELSE Max(LCS(Tail(a), b), LCS(a, Tail(b)))

Rat(n, d) == [num |-> n, den |-> d]
RatLess(p, q) == p.num * q.den < q.num * p.den
RatGreater(p, q) == RatLess(q, p)

\* _ratio: 100 * 2M / T, the similarity of two strings in [0, 100]
_ratio(a, b) ==
    IF Len(a) + Len(b) = 0 THEN Rat(100, 1)
    ELSE Rat(200 * LCS(a, b), Len(a) + Len(b))

\* score = 0.6 * score_artist + 0.4 * score_title
Combine(score_artist, score_title) ==
    Rat(6 * score_artist.num * score_title.den + 4 * score_title.num * score_artist.den,
        10 * score_artist.den * score_title.den)

(* --------------------------- catalog records -------------------------- *)
Str(ch) == <<ch>>
NoUrl == <<>>

Artist(id, name) == [id |-> id, name |-> name]
Track(id, name, art) == [id |-> id, name |-> name, artists |-> <<art>>, ext |-> NoUrl]

ArB == Artist("ar1", Str("b"))
ArNoId == Artist(None, Str("b"))

T_dup == Track("t1", Str("A"), ArB)            \* the favorite, other case
T_norm == Track("t2", <<"a_acute", "!">>, ArB)       \* the favorite, accent and punctuation
T_c == Track("t3", Str("c"), ArB)
T_x == Track("t4", Str("x"), ArB)
T_noname == Track("t5", <<>>, ArB)             \* name missing
T_noid == Track("t6", Str("a"), ArNoId)        \* lead artist without id
T_noartist == [id |-> "t8", name |-> Str("a"), artists |-> <<>>, ext |-> NoUrl]

\* what a track search can return
SearchLists == { <<>>, <<T_dup>>, <<T_c, T_dup>>, <<T_c>>, <<T_noid>> }

\* what /artists/{id}/top-tracks can return
TopLists == { <<>>, <<T_dup, T_c>>, <<T_norm, T_noname>>, <<T_x, T_c>>, <<T_noartist>> }

\* what /artists/{id} can return: nothing, or name and genres
NoData == [name |-> <<>>, genres |-> <<>>]
ArtistPayloads == { NoData, [name |-> Str("b"), genres |-> <<"pop">>] }

\* the favorites a caller can pass: (title, artist)
F_ab == <<Str("a"), Str("b")>>
F_ws == <<Str(" "), Str("b")>>
F_empty == <<<<>>, Str("b")>>
FavPool == { F_ab, F_ws, F_empty }

RECURSIVE SeqsUpTo(_, _)
SeqsUpTo(S, n) ==
    IF n = 0 THEN { <<>> }
    ELSE LET shorter == SeqsUpTo(S, n - 1)
         IN  shorter \cup { Append(s, e) : s \in shorter, e \in S }

\* extract_track_core: (track_id, track_name, primary_artist_id,
\* primary_artist_name, spotify_url)
extract_track_core(track) ==
    LET tid == track.id
        tname == track.name
        artists == track.artists
        a_id == IF artists # <<>> THEN artists[1].id ELSE ""
        a_name == IF artists # <<>> THEN artists[1].name ELSE <<>>
        turl == IF track.ext # NoUrl THEN track.ext
                ELSE IF tid # "" THEN <<"https://open.spotify.com/track/", tid>>
                ELSE NoUrl
    IN  [tid |-> tid, tname |-> tname, a_id |-> a_id, a_name |-> a_name, turl |-> turl]

(* ------------------------------- state -------------------------------- *)
VARIABLES
    client_id, client_secret,   \* arguments of recommend_from_favorites
    max_recs,
    favorites,                  \* the argument, then the usable pairs (line 282)
    pc,                         \* position in recommend_from_favorites
    fav_keys,                   \* locals of recommend_from_favorites
    artist_infos, candidates, recs,
    fi, ai,                     \* loop indices: favorite, resolved artist
    results,                    \* results of _try_search_variants
    access_token, expires_at,   \* SpotifyClient._access_token, ._expires_at (x100)
    now,                        \* time.time()
    outcome,                    \* how the pipeline ended
    issued,                     \* history: searches of the current resolution
    lastRes,                    \* history: how the last of them ended
    lastResolve,                \* history: the last resolution
    tokenRequested,             \* history: a token request was sent in this run
    apiRequested,               \* history: a catalog request was sent in this run
    tokenFailed,                \* history: a token-level failure happened
    topResp,                    \* history: top-tracks response per resolved artist
    best_pick,                  \* the best candidate of the candidate loop alone
    track_pop_max, artist_pop_max, per_bucket,   \* arguments of build_recommendation_buckets
    hidden_gems, rising_related, rising_genre,   \* its three lists
    gi,                         \* its loop index over the genre tags
    buckets,                    \* the mapping it returns
    variant,                    \* the file whose SpotifyClient is run
    lastCall,                   \* history: the last _api_get, its answers and result
    run                         \* history: the calls and token requests of a client

vars == <<client_id, client_secret, max_recs, favorites, pc, fav_keys,
          artist_infos, candidates, recs, fi, ai, results, access_token, expires_at,
          now, outcome, issued, lastRes, lastResolve, tokenRequested, apiRequested,
          tokenFailed, topResp, best_pick, track_pop_max, artist_pop_max, per_bucket,
          hidden_gems, rising_related, rising_genre, gi, buckets, variant, lastCall, run>>

inputVars == <<client_id, client_secret, max_recs>>

\* the state of the parts that are run on their own
scoreVars == <<best_pick>>
nicheInputs == <<track_pop_max, artist_pop_max, per_bucket>>
nicheVars == <<hidden_gems, rising_related, rising_genre, gi, buckets>>
traceVars == <<variant, lastCall, run>>
auxVars == <<scoreVars, nicheInputs, nicheVars, traceVars>>
clientVars == <<access_token, expires_at>>
callVars == <<access_token, expires_at, tokenRequested, apiRequested, tokenFailed>>

(* --------------------------- SpotifyClient ---------------------------- *)
\* What the network does to one _api_get: the answer to the token request
\* of _ensure_token (tok1), to the GET (r1), to the token request after a
\* 401 (tok2) and to the retried GET (r2).
\* the Retry-After header of a 429: absent, a number of seconds, a date
Header(kind, seconds) == [kind |-> kind, seconds |-> seconds]
NoHeader == Header("absent", 0)

Script(tok1, r1, tok2, r2) ==
    [tok1 |-> tok1, r1 |-> r1, tok2 |-> tok2, r2 |-> r2,
     retry_after |-> NoHeader, expires_in |-> ExpiresIn]

Answers == {"ok", "429", "401", "err"}

Scripts ==
    { Script(t1, r, "ok", "ok") : t1 \in {"ok", "fail"}, r \in {"ok", "err"} }
    \cup { Script(t1, r, "ok", r2) : t1 \in {"ok", "fail"}, r \in {"429", "401"}, r2 \in Answers }
    \cup { Script(t1, "401", "fail", "ok") : t1 \in {"ok", "fail"} }

\* the accounts service grants a token only to a client id and secret
TokenGranted(answer, cid, csec) == answer = "ok" /\ cid # <<>> /\ csec # <<>>

\* a deadline at the whole of the stated lifetime
ExpiresAtFull(t, expires_in) == t * 100 + expires_in * 100

\* _fetch_access_token: _expires_at = time.time() + expires_in * 0.95
ExpiresAt(t, expires_in) == t * 100 + expires_in * 95

\* _ensure_token: fetch when there is no token or it has reached _expires_at
NeedsToken(token, exp, t) == token = None \/ t * 100 >= exp

\* int(e.headers.get("Retry-After", "2")); a header that is not a number
\* of seconds makes int() raise
RetryAfterDefault == 2
IsSeconds(h) == h.kind \in {"absent", "seconds"}
RetryAfter(h) == IF h.kind = "absent" THEN RetryAfterDefault ELSE h.seconds

\* _api_get.  The result: ok (a payload is returned) or an exception; the
\* token and its deadline afterwards; token requests sent by _ensure_token
\* and by the refresh after a 401; GETs sent; whether the exception is a
\* token-level failure; seconds slept before the retry.
Result(ok, token, exp, nEnsure, nRefresh, nApi, tokFail, slept) ==
    [ok |-> ok, token |-> token, exp |-> exp, ensures |-> nEnsure, refreshes |-> nRefresh,
     tokenReqs |-> nEnsure + nRefresh, apiReqs |-> nApi, tokenFailure |-> tokFail,
     slept |-> slept]

\* a 401 that is raised at once
Raise401(sc, cid, csec, tok1, exp1, n0, t) == Result(FALSE, tok1, exp1, n0, 0, 1, FALSE, 0)

\* lines 109-115: refresh the token, retry once
Refresh401(sc, cid, csec, tok1, exp1, n0, t) ==
    IF ~TokenGranted(sc.tok2, cid, csec)
    THEN Result(FALSE, tok1, exp1, n0, 1, 1, TRUE, 0)
    ELSE Result(sc.r2 = "ok", "tok", ExpiresAt(t, sc.expires_in), n0, 1, 2, sc.r2 = "401", 0)

\* a 429 that is retried without a wait
Retry429NoWait(sc, tok1, exp1, n0) == Result(sc.r2 = "ok", tok1, exp1, n0, 0, 2, FALSE, 0)

\* lines 104-108: sleep Retry-After, retry once
Retry429(sc, tok1, exp1, n0) ==
    IF ~IsSeconds(sc.retry_after)
    THEN Result(FALSE, tok1, exp1, n0, 0, 1, FALSE, 0)
    ELSE Result(sc.r2 = "ok", tok1, exp1, n0, 0, 2, FALSE, RetryAfter(sc.retry_after))

\* app.py, lines 86-116
_api_get(sc, cid, csec, token, exp, t) ==
    LET need == NeedsToken(token, exp, t)
        n0 == IF need THEN 1 ELSE 0
    IN  IF need /\ ~TokenGranted(sc.tok1, cid, csec)
        THEN Result(FALSE, token, exp, 1, 0, 0, TRUE, 0)
        ELSE
        LET tok1 == IF need THEN "tok" ELSE token
            exp1 == IF need THEN ExpiresAt(t, sc.expires_in) ELSE exp
        IN  CASE sc.r1 = "ok" -> Result(TRUE, tok1, exp1, n0, 0, 1, FALSE, 0)
              [] sc.r1 = "429" -> Retry429(sc, tok1, exp1, n0)
              [] sc.r1 = "401" -> Refresh401(sc, cid, csec, tok1, exp1, n0, t)
              [] OTHER -> Result(FALSE, tok1, exp1, n0, 0, 1, FALSE, 0)

\* spotify_client.py, lines 56-76: a 401 is raised, not retried
_api_get_spotify_client(sc, cid, csec, token, exp, t) ==
    LET need == NeedsToken(token, exp, t)
        n0 == IF need THEN 1 ELSE 0
    IN  IF need /\ ~TokenGranted(sc.tok1, cid, csec)
        THEN Result(FALSE, token, exp, 1, 0, 0, TRUE, 0)
        ELSE
        LET tok1 == IF need THEN "tok" ELSE token
            exp1 == IF need THEN ExpiresAt(t, sc.expires_in) ELSE exp
        IN  CASE sc.r1 = "ok" -> Result(TRUE, tok1, exp1, n0, 0, 1, FALSE, 0)
              [] sc.r1 = "429" -> Retry429(sc, tok1, exp1, n0)
              [] sc.r1 = "401" -> Raise401(sc, cid, csec, tok1, exp1, n0, t)
              [] OTHER -> Result(FALSE, tok1, exp1, n0, 0, 1, FALSE, 0)

\* the client's state and the request history after one _api_get
Called(r) ==
    /\ access_token' = r.token
    /\ expires_at' = r.exp
    /\ tokenRequested' = (tokenRequested \/ r.tokenReqs > 0)
    /\ apiRequested' = (apiRequested \/ r.apiReqs > 0)
    /\ tokenFailed' = (tokenFailed \/ r.tokenFailure)

(* ------------------------------ resolver ------------------------------ *)
Falsy(id) == id \in {None, ""}

\* how one search of _try_search_variants ended
Ended(r, d) == IF ~r.ok THEN "fail" ELSE IF d = <<>> THEN "empty" ELSE "hit"

title == favorites[fi][1]
artist == favorites[fi][2]

\* the GET of the current step
Get(sc) == _api_get(sc, strip(client_id), strip(client_secret), access_token, expires_at, now)

\* the scripts that differ for the current step: the answer to the token
\* request of _ensure_token is only read when that request is sent
CallScripts ==
    IF NeedsToken(access_token, expires_at, now) THEN Scripts
    ELSE { sc \in Scripts : sc.tok1 = "ok" }

\* the payloads a call can return: one of S, none when it raised
Payloads(r, S) == IF r.ok THEN S ELSE { CHOOSE d \in S : TRUE }

\* the q of search_tracks_filtered and search_track: track:"t" artist:"a";
\* empty exactly when both parts are left out
FilterQuery(t, a) ==
    strip((IF t # <<>> THEN <<"track:">> \o t ELSE <<>>) \o <<" ">>
          \o (IF a # <<>> THEN <<"artist:">> \o a ELSE <<>>))

\* the q of the free-text search: " ".join([title, artist]).strip()
FreeQuery(t, a) == strip(t \o <<" ">> \o a)

\* a cascade that goes on searching after a search returned results
AfterSearchKeepGoing(res, next) == next

\* a step that leaves the flow of _try_search_variants: results are scored
\* as soon as some search returned any, every later "if not results" is
\* false
AfterSearch(res, next) == IF res # <<>> THEN "score" ELSE next

resolverUnchanged ==
    UNCHANGED <<inputVars, auxVars, favorites, fav_keys, artist_infos, candidates, recs, fi, ai,
                now, outcome, lastResolve, topResp>>

noCallUnchanged == UNCHANGED callVars

\* search_tracks_filtered, quoted query (lines 133-136); an exception leaves
\* search_tracks_filtered and _try_search_variants sets results = []
Quoted ==
    /\ pc = "quoted"
    /\ resolverUnchanged
    /\ IF FilterQuery(title, artist) = <<>>
       THEN /\ noCallUnchanged
            /\ UNCHANGED <<results, issued, lastRes>>
            /\ pc' = "unquoted"
       ELSE \E sc \in CallScripts : \E d \in Payloads(Get(sc), SearchLists) :
              LET r == Get(sc)
                  res == IF r.ok THEN d ELSE <<>>
              IN  /\ Called(r)
                  /\ results' = res
                  /\ issued' = Append(issued, "quoted")
                  /\ lastRes' = Ended(r, d)
                  /\ pc' = IF ~r.ok THEN "free" ELSE AfterSearch(res, "unquoted")

\* search_tracks_filtered, unquoted query (lines 137-142)
Unquoted ==
    /\ pc = "unquoted"
    /\ resolverUnchanged
    /\ IF FilterQuery(title, artist) = <<>>
       THEN /\ noCallUnchanged
            /\ UNCHANGED <<results, issued, lastRes>>
            /\ pc' = "free"
       ELSE \E sc \in CallScripts : \E d \in Payloads(Get(sc), SearchLists) :
              LET r == Get(sc)
                  res == IF r.ok THEN d ELSE <<>>
              IN  /\ Called(r)
                  /\ results' = res
                  /\ issued' = Append(issued, "unquoted")
                  /\ lastRes' = Ended(r, d)
                  /\ pc' = AfterSearch(res, "free")

\* search_tracks_free (lines 215-221, 144-150)
Free ==
    /\ pc = "free"
    /\ resolverUnchanged
    /\ IF FreeQuery(title, artist) = <<>>
       THEN /\ noCallUnchanged
            /\ UNCHANGED <<results, issued, lastRes>>
            /\ pc' = "track"
       ELSE \E sc \in CallScripts : \E d \in Payloads(Get(sc), SearchLists) :
              LET r == Get(sc)
                  res == IF r.ok THEN d ELSE <<>>
              IN  /\ Called(r)
                  /\ results' = res
                  /\ issued' = Append(issued, "free")
                  /\ lastRes' = Ended(r, d)
                  /\ pc' = AfterSearch(res, "track")

\* search_track(t, a) called from a fallback: no request when both are
\* empty; an exception leaves results as they were, that is empty
Fallback(kind, t, a, next) ==
    IF strip(t) = <<>> /\ strip(a) = <<>>
    THEN /\ noCallUnchanged
         /\ UNCHANGED <<results, issued, lastRes>>
         /\ pc' = next
    ELSE \E sc \in CallScripts : \E d \in Payloads(Get(sc), SearchLists) :
           LET r == Get(sc)
               res == IF r.ok THEN d ELSE <<>>
           IN  /\ Called(r)
               /\ results' = res
               /\ issued' = Append(issued, kind)
               /\ lastRes' = Ended(r, d)
               /\ pc' = AfterSearch(res, next)

Skip(next) ==
    /\ noCallUnchanged
    /\ UNCHANGED <<results, issued, lastRes>>
    /\ pc' = next

\* search_track(title, artist) (lines 223-225): the quoted query again
TrackFull ==
    /\ pc = "track"
    /\ resolverUnchanged
    /\ Fallback("quoted", title, artist, "title")

\* search_track(title, "") (lines 226-228)
TitleOnly ==
    /\ pc = "title"
    /\ resolverUnchanged
    /\ IF title # <<>> THEN Fallback("title", title, <<>>, "artist") ELSE Skip("artist")

\* search_track("", artist) (lines 229-231)
ArtistOnly ==
    /\ pc = "artist"
    /\ resolverUnchanged
    /\ IF artist # <<>> THEN Fallback("artist", <<>>, artist, "first") ELSE Skip("first")

\* search_track(t_first, a_first) (lines 232-237)
FirstTokens ==
    /\ pc = "first"
    /\ resolverUnchanged
    /\ LET t_first == FirstToken(title)
           a_first == FirstToken(artist)
       IN  IF t_first # <<>> \/ a_first # <<>>
           THEN Fallback("first", t_first, a_first, "score")
           ELSE Skip("score")

\* the score of one candidate (lines 253-258)
Score(t, a, tr) ==
    LET title_clean == _clean(t)
        artist_clean == _clean(a)
        tr_title_clean == _clean(tr.name)
        lead_name_clean == IF tr.artists # <<>> THEN _clean(tr.artists[1].name) ELSE <<>>
        score_title == IF title_clean # <<>> THEN _ratio(title_clean, tr_title_clean)
                       ELSE Rat(0, 1)
        score_artist == IF artist_clean # <<>> THEN _ratio(artist_clean, lead_name_clean)
                        ELSE Rat(0, 1)
    IN  Combine(score_artist, score_title)

\* the candidate loop (lines 250-261): best_item is <<>> for None
Best(item, score) == [item |-> item, score |-> score]

\* a candidate loop in which the last of the best candidates wins
RECURSIVE BestLoopLastWins(_, _, _, _)
BestLoopLastWins(t, a, cands, best) ==
    IF cands = <<>> THEN best
    ELSE LET tr == Head(cands)
             score == Score(t, a, tr)
         IN  BestLoopLastWins(t, a, Tail(cands),
                              IF ~RatLess(score, best.score) THEN Best(<<tr>>, score)
                              ELSE best)

\* the candidate loop (lines 250-261)
RECURSIVE BestLoop(_, _, _, _)
BestLoop(t, a, cands, best) ==
    IF cands = <<>> THEN best
    ELSE LET tr == Head(cands)
             score == Score(t, a, tr)
         IN  BestLoop(t, a, Tail(cands),
                      IF RatGreater(score, best.score) THEN Best(<<tr>>, score) ELSE best)

\* an acceptance that forgets the threshold
AcceptedAnyScore(best, accept_threshold) == best.item # <<>>

\* line 262 negated: the best candidate is accepted
Accepted(best, accept_threshold) ==
    ~(best.item = <<>> \/ RatLess(best.score, Rat(accept_threshold, 1)))

\* the pipeline after favorite k: the next favorite, or the expansion
AfterFavorite(k, infos) ==
    IF k < Len(favorites) THEN "quoted"
    ELSE IF infos # <<>> THEN "top" ELSE "dedupe"

\* the history of one resolution: was the best candidate accepted, what
\* became of get_artist ("skipped", "ok", "nothing", "fail"), was an artist
\* appended to artist_infos
Resolution(accepted, getArtist, appended) ==
    [accepted |-> accepted, getArtist |-> getArtist, appended |-> appended]

\* resolve_favorite_to_artist after the searches (lines 250-271) and what
\* recommend_from_favorites does with its result (lines 288-293)
ScoreAndGetArtist ==
    /\ pc = "score"
    /\ UNCHANGED <<inputVars, auxVars, favorites, fav_keys, candidates, recs, ai, now, outcome, topResp>>
    /\ fi' = fi + 1
    /\ results' = <<>>
    /\ issued' = <<>>
    /\ lastRes' = "none"
    /\ LET best == BestLoop(title, artist, results, Best(<<>>, Rat(-1, 1)))
       IN  IF ~Accepted(best, AcceptThreshold)
           THEN \* return None
                /\ noCallUnchanged
                /\ artist_infos' = artist_infos
                /\ lastResolve' = Resolution(FALSE, "skipped", FALSE)
                /\ pc' = AfterFavorite(fi, artist_infos)
           ELSE LET best_item == best.item[1]
                    artists == best_item.artists
                    aid == IF artists # <<>> THEN artists[1].id ELSE None
                    lead_name == IF artists # <<>> THEN artists[1].name ELSE <<>>
                IN  IF Falsy(aid)
                    THEN \* adata = {}; the tuple has no id and is not appended
                         /\ noCallUnchanged
                         /\ artist_infos' = artist_infos
                         /\ lastResolve' = Resolution(TRUE, "skipped", FALSE)
                         /\ pc' = AfterFavorite(fi, artist_infos)
                    ELSE \E sc \in CallScripts : \E adata \in Payloads(Get(sc), ArtistPayloads) :
                           LET r == Get(sc)
                               info == [id |-> aid,
                                        name |-> IF adata.name # <<>> THEN adata.name
                                                 ELSE lead_name,
                                        genres |-> adata.genres]
                               infos == IF r.ok THEN Append(artist_infos, info)
                                        ELSE artist_infos
                           IN  /\ Called(r)
                               /\ artist_infos' = infos
                               /\ lastResolve' =
                                    Resolution(TRUE,
                                               IF ~r.ok THEN "fail"
                                               ELSE IF adata = NoData THEN "nothing" ELSE "ok",
                                               r.ok)
                               /\ pc' = AfterFavorite(fi, infos)

(* --------------------------- Standard pipeline ------------------------ *)
\* line 282: the pairs with a non-empty title and artist, then stripped
Usable(favs) ==
    LET kept == SelectSeq(favs, LAMBDA f : f[1] # <<>> /\ f[2] # <<>>)
    IN  [k \in 1..Len(kept) |-> <<strip(kept[k][1]), strip(kept[k][2])>>]

\* line 283
FavKeys(favs) == { <<lower(f[1]), lower(f[2])>> : f \in { favs[k] : k \in 1..Len(favs) } }

\* a key that keeps the case of the track
TrackKeyCaseSensitive(tname, pa_name) == <<strip(tname), strip(pa_name)>>

\* line 302
TrackKey(tname, pa_name) == <<lower(strip(tname)), lower(strip(pa_name))>>

\* line 305: f"{tname} <em dash> {pa_name}"
DisplayText(tname, pa_name) == tname \o <<" ", "emdash", " ">> \o pa_name

Candidate(tname, pa_name, turl) ==
    [text |-> DisplayText(tname, pa_name), url |-> turl, tname |-> tname, pa_name |-> pa_name]

\* lines 281-284
Start ==
    /\ pc = "start"
    /\ favorites' = Usable(favorites)
    /\ fav_keys' = FavKeys(Usable(favorites))
    /\ artist_infos' = <<>>
    /\ access_token' = None
    /\ expires_at' = 0
    /\ fi' = 1
    /\ pc' = IF Usable(favorites) # <<>> THEN "quoted" ELSE "dedupe"
    /\ UNCHANGED <<inputVars, auxVars, candidates, recs, ai, results, now, outcome, issued, lastRes,
                   lastResolve, tokenRequested, apiRequested, tokenFailed, topResp>>

TopLimit == 10

Take(s, n) == SubSeq(s, 1, IF Len(s) < n THEN Len(s) ELSE n)

\* the track loop (lines 298-305)
RECURSIVE TrackLoop(_, _)
TrackLoop(top, keys) ==
    IF top = <<>> THEN <<>>
    ELSE LET core == extract_track_core(Head(top))
             rest == TrackLoop(Tail(top), keys)
         IN  IF core.tname = <<>> \/ core.a_name = <<>> THEN rest
             ELSE IF TrackKey(core.tname, core.a_name) \in keys THEN rest
             ELSE <<Candidate(core.tname, core.a_name, core.turl)>> \o rest

\* a failed fetch that ends the artist loop
AbortExpansion(k, n) == n + 1

\* lines 306-307: except Exception: continue
AfterTopFailure(k, n) == k + 1

\* one iteration of the artist loop (lines 295-307)
TopTracks ==
    /\ pc = "top"
    /\ UNCHANGED <<inputVars, auxVars, favorites, fav_keys, artist_infos, recs, fi, results, now,
                   outcome, issued, lastRes, lastResolve>>
    /\ \E sc \in CallScripts : \E d \in Payloads(Get(sc), TopLists) :
         LET r == Get(sc)
             top == Take(d, TopLimit)
             nxt == IF r.ok THEN ai + 1 ELSE AfterTopFailure(ai, Len(artist_infos))
         IN  /\ Called(r)
             /\ candidates' = IF r.ok THEN candidates \o TrackLoop(top, fav_keys)
                              ELSE candidates
             /\ topResp' = Append(topResp, IF r.ok THEN <<top>> ELSE <<>>)
             /\ ai' = nxt
             /\ pc' = IF nxt <= Len(artist_infos) THEN "top" ELSE "dedupe"

\* a loop that never looks at seen
RECURSIVE DedupeLoopNoSeen(_, _, _, _)
DedupeLoopNoSeen(cands, seen, out, n) ==
    IF cands = <<>> THEN out
    ELSE LET out1 == Append(out, Head(cands))
         IN  IF Len(out1) >= n THEN out1
             ELSE DedupeLoopNoSeen(Tail(cands), seen, out1, n)

\* lines 308-314
RECURSIVE DedupeLoop(_, _, _, _)
DedupeLoop(cands, seen, out, n) ==
    IF cands = <<>> THEN out
    ELSE LET c == Head(cands)
             out1 == IF c.text \notin seen THEN Append(out, c) ELSE out
         IN  IF Len(out1) >= n THEN out1
             ELSE DedupeLoop(Tail(cands), seen \cup {c.text}, out1, n)

\* lines 308-315
Dedupe ==
    /\ pc = "dedupe"
    /\ recs' = DedupeLoop(candidates, {}, <<>>, max_recs)
    /\ outcome' = "list"
    /\ pc' = "done"
    /\ UNCHANGED <<inputVars, auxVars, favorites, fav_keys, artist_infos, candidates, fi, ai, results,
                   callVars, now, issued, lastRes, lastResolve, topResp>>

\* time passes while the pipeline runs
Tick ==
    /\ pc \notin {"start", "done"}
    /\ now < MaxTime
    /\ now' = now + 1
    /\ UNCHANGED <<inputVars, auxVars, pc, favorites, fav_keys, artist_infos, candidates, recs, fi, ai,
                   results, callVars, outcome, issued, lastRes, lastResolve, topResp>>

\* no call of the client recorded
NoCall == [at |-> 0]
NoRun == [calls |-> 0, fetches |-> 0, saw401 |-> FALSE, sawExpiry |-> FALSE,
          fetched_at |-> 0, lifetime |-> 0]
TraceBlank ==
    /\ variant = "app.py"
    /\ lastCall = NoCall
    /\ run = NoRun

\* build_recommendation_buckets not called
NicheBlank ==
    /\ track_pop_max = 0
    /\ artist_pop_max = 0
    /\ per_bucket = 0
    /\ hidden_gems = <<>>
    /\ rising_related = <<>>
    /\ rising_genre = <<>>
    /\ gi = 1
    /\ buckets = <<>>

Init ==
    /\ client_id \in { <<>>, Str("i") }
    /\ client_secret \in { <<>>, Str("s") }
    /\ max_recs \in 0..MaxRecsBound
    /\ pc = "start"
    /\ favorites \in SeqsUpTo(FavPool, MaxFavs)
    /\ fav_keys = {}
    /\ artist_infos = <<>>
    /\ candidates = <<>>
    /\ recs = <<>>
    /\ fi = 0
    /\ ai = 1
    /\ results = <<>>
    /\ access_token = None
    /\ expires_at = 0
    /\ now = 0
    /\ outcome = "running"
    /\ issued = <<>>
    /\ lastRes = "none"
    /\ lastResolve = Resolution(FALSE, "skipped", FALSE)
    /\ tokenRequested = FALSE
    /\ apiRequested = FALSE
    /\ tokenFailed = FALSE
    /\ topResp = <<>>
    /\ best_pick = Best(<<>>, Rat(-1, 1))
    /\ NicheBlank
    /\ TraceBlank

Next ==
    \/ Start
    \/ Quoted
    \/ Unquoted
    \/ Free
    \/ TrackFull
    \/ TitleOnly
    \/ ArtistOnly
    \/ FirstTokens
    \/ ScoreAndGetArtist
    \/ TopTracks
    \/ Dedupe
    \/ Tick

Spec == Init /\ [][Next]_vars

(* ------------------------------ properties ---------------------------- *)
Range(s) == { s[k] : k \in 1..Len(s) }
Last(s) == s[Len(s)]
Done == pc = "done"
MissingCredentials == strip(client_id) = <<>> \/ strip(client_secret) = <<>>

\* C1: the list returned by the Standard pipeline has at most max_recs
\* elements, for every max_recs.
C1_LengthAtMostMaxRecs == Done => Len(recs) <= max_recs

\* C2: no emitted item has a (track name, artist name) that _clean maps to
\* the same (title, artist) key as a favorite.
C2_NoItemNormalizesToFavorite ==
    \A c \in Range(recs) : \A f \in Range(favorites) :
        <<_clean(c.tname), _clean(c.pa_name)>> # <<_clean(f[1]), _clean(f[2])>>

\* C2, amended: no emitted item has a (track name, artist name) that,
\* trimmed and lower-cased, equals the trimmed and lower-cased (title,
\* artist) of a favorite with a non-empty title and artist.
C2_NoItemEqualsFavorite ==
    \A c \in Range(recs) : \A f \in Range(favorites) :
        <<lower(strip(c.tname)), lower(strip(c.pa_name))>>
            # <<lower(strip(f[1])), lower(strip(f[2]))>>

\* C2 witness: a run ended with items, after a top-tracks response that held
\* the favorite itself in another case.
C2_Witness ==
    /\ Done
    /\ recs # <<>>
    /\ \E k \in 1..Len(topResp) : topResp[k] # <<>> /\ T_dup \in Range(topResp[k][1])
    /\ <<Str("a"), Str("b")>> \in Range(favorites)

\* the strategies of the claim in their order
Rank(kind) ==
    CASE kind = "quoted" -> 1
      [] kind = "unquoted" -> 2
      [] kind = "free" -> 3
      [] kind = "title" -> 4
      [] kind = "artist" -> 5
      [] kind = "first" -> 6

\* C3: the searches are issued in the order quoted, unquoted, free-text,
\* title-only, artist-only, first-token, and the candidates that are scored
\* are those of the search that returned results.
C3_SixStrategiesInOrder ==
    /\ \A i, j \in 1..Len(issued) : i < j => Rank(issued[i]) < Rank(issued[j])
    /\ (pc = "score" /\ results # <<>> => lastRes = "hit")

\* the searches of _try_search_variants in their order
CascadeOrder == <<"quoted", "unquoted", "free", "quoted", "title", "artist", "first">>

RECURSIVE IsSubseq(_, _)
IsSubseq(s, t) ==
    IF s = <<>> THEN TRUE
    ELSE IF t = <<>> THEN FALSE
    ELSE IF Head(s) = Head(t) THEN IsSubseq(Tail(s), Tail(t))
    ELSE IsSubseq(s, Tail(t))

\* C3, amended: the searches are issued in the order quoted, unquoted,
\* free-text, quoted again, title-only, artist-only, first-token; a search is
\* issued only while no earlier search has left results; the results that
\* are scored are those of the one search that returned any.
C3_CascadeOrder ==
    [][ /\ IsSubseq(issued', CascadeOrder)
        /\ (Len(issued') > Len(issued) =>
               /\ results = <<>>
               /\ Len(issued') = Len(issued) + 1
               /\ (results' # <<>> <=> lastRes' = "hit"))
        /\ (Len(issued') = Len(issued) /\ pc # "score" => results' = results)
        /\ (pc' = "score" /\ results' # <<>> => lastRes' = "hit") ]_vars

\* C3 witness: only the free-text search returned results, and they are
\* about to be scored.
C3_Witness ==
    /\ pc = "score"
    /\ issued = <<"quoted", "unquoted", "free">>
    /\ lastRes = "hit"
    /\ results # <<>>

\* the step that follows a search in the cascade
StepAfter(trace) ==
    CASE Last(trace) = "quoted" /\ Len(trace) = 1 -> "unquoted"
      [] Last(trace) = "unquoted" -> "free"
      [] Last(trace) = "free" -> "track"
      [] Last(trace) = "quoted" /\ Len(trace) > 1 -> "title"
      [] Last(trace) = "title" -> "artist"
      [] Last(trace) = "artist" -> "first"
      [] Last(trace) = "first" -> "score"

\* C4: a search that fails leaves no results, stays inside the resolver, and
\* the next step of the cascade is attempted: after the quoted search, the
\* unquoted one.
C4_FailedStepGoesToNextStep ==
    issued # <<>> /\ lastRes = "fail" => results = <<>> /\ pc = StepAfter(issued)

\* C5: an artist is resolved only if some candidate, hence the best one,
\* scores at least the threshold; with no candidate or a best score below it
\* nothing is accepted, no artist is fetched and none is added.
C5_AcceptOnlyAtThreshold ==
    [][ pc = "score" /\ fi' # fi =>
          LET above == \E k \in 1..Len(results) :
                          ~RatLess(Score(title, artist, results[k]), Rat(AcceptThreshold, 1))
          IN  /\ lastResolve'.accepted <=> above
              /\ (artist_infos' # artist_infos => above)
              /\ (~above => /\ artist_infos' = artist_infos
                            /\ lastResolve'.getArtist = "skipped"
                            /\ UNCHANGED callVars) ]_vars

\* C5 witness: a favorite was accepted and its artist added.
C5_Witness ==
    /\ lastResolve.accepted
    /\ lastResolve.appended
    /\ Len(artist_infos) = 1

\* C6: once the best candidate is accepted, a get_artist that fails or
\* returns nothing still yields a resolved artist.
C6_ResolvedWithoutArtistData ==
    lastResolve.accepted /\ lastResolve.getArtist \in {"fail", "nothing"}
        => lastResolve.appended

\* C7: every pair that reaches resolution has a title and an artist that are
\* non-empty after trimming, and no other pair enters fav_keys.
C7_OnlyUsablePairs ==
    pc # "start" =>
        /\ \A f \in Range(favorites) : strip(f[1]) # <<>> /\ strip(f[2]) # <<>>
        /\ \A key \in fav_keys : key[1] # <<>> /\ key[2] # <<>>

\* C8: without a client id or without a client secret the core sends no
\* token request and no catalog request and ends with MissingCredentials.
C8_MissingCredentialsRejected ==
    MissingCredentials =>
        /\ ~tokenRequested
        /\ ~apiRequested
        /\ (Done => outcome = "MissingCredentials")

\* C9: a token-level failure ends the request with a fatal error, not with
\* a list.
C9_TokenFailureIsFatal == Done /\ tokenFailed => outcome = "fatal"

\* what the resolved artists fetched so far contribute
RECURSIVE Contributions(_)
Contributions(resp) ==
    IF resp = <<>> THEN <<>>
    ELSE (IF Head(resp) = <<>> THEN <<>> ELSE TrackLoop(Head(resp)[1], fav_keys))
         \o Contributions(Tail(resp))

\* C10: an artist whose top-tracks fetch fails contributes nothing, every
\* other resolved artist is still fetched and contributes its tracks, and
\* the pipeline returns a list.
C10_TopFailureIsLocal ==
    /\ (pc = "top" => Len(topResp) = ai - 1)
    /\ (pc \in {"dedupe", "done"} => Len(topResp) = Len(artist_infos))
    /\ candidates = Contributions(topResp)
    /\ (Done => outcome = "list")

\* C10 witness: the first artist's fetch failed and the second artist's
\* tracks are in the list that is returned.
C10_Witness ==
    /\ Done
    /\ Len(topResp) = 2
    /\ topResp[1] = <<>>
    /\ topResp[2] # <<>>
    /\ recs # <<>>

\* C11: within one Standard response no displayText occurs twice.
C11_NoDuplicateText ==
    \A i, j \in 1..Len(recs) : i # j => recs[i].text # recs[j].text

\* C11 witness: two artists returned the same track, and the list that was
\* returned holds it.
C11_Witness ==
    /\ Done
    /\ recs # <<>>
    /\ \E i, j \in 1..Len(candidates) : i < j /\ candidates[i].text = candidates[j].text

\* the first occurrence of every displayText, in order
RECURSIVE FirstOccurrences(_, _)
FirstOccurrences(cands, seen) ==
    IF cands = <<>> THEN <<>>
    ELSE IF Head(cands).text \in seen THEN FirstOccurrences(Tail(cands), seen)
    ELSE <<Head(cands)>> \o FirstOccurrences(Tail(cands), seen \cup {Head(cands).text})

\* C17: the list returned is the first max_recs elements of the eligible
\* top tracks, concatenated in artist order and track order, with only the
\* first occurrence of every displayText kept.
C17_FirstMaxRecsOfFirstOccurrences ==
    Done => recs = Take(FirstOccurrences(Contributions(topResp), {}), max_recs)

(* ------------------------ the candidate loop alone --------------------- *)
MaxCands == 3         \* candidates returned by one search

\* the initial values of the client and of its history
ClientBlank ==
    /\ access_token = None
    /\ expires_at = 0
    /\ now = 0
    /\ tokenRequested = FALSE
    /\ apiRequested = FALSE
    /\ tokenFailed = FALSE

\* the initial values of the locals of recommend_from_favorites
LocalsBlank ==
    /\ fav_keys = {}
    /\ artist_infos = <<>>
    /\ candidates = <<>>
    /\ recs = <<>>
    /\ ai = 1
    /\ outcome = "running"
    /\ issued = <<>>
    /\ lastRes = "none"
    /\ lastResolve = Resolution(FALSE, "skipped", FALSE)
    /\ topResp = <<>>

\* the tracks a search can return, in any order
ScorePool == { T_dup, T_norm, T_c, T_x, T_noid }

\* resolve_favorite_to_artist(sp, title, artist) with the candidates found
InitScore ==
    /\ client_id = Str("i")
    /\ client_secret = Str("s")
    /\ max_recs = 0
    /\ favorites \in { <<F_ab>>, <<<<<<>>, Str("b")>>>> }
    /\ fi = 1
    /\ results \in SeqsUpTo(ScorePool, MaxCands)
    /\ pc = "pick"
    /\ best_pick = Best(<<>>, Rat(-1, 1))
    /\ ClientBlank
    /\ LocalsBlank
    /\ NicheBlank
    /\ TraceBlank

\* the candidate loop (lines 250-261)
Pick ==
    /\ pc = "pick"
    /\ best_pick' = BestLoop(title, artist, results, Best(<<>>, Rat(-1, 1)))
    /\ pc' = "picked"
    /\ UNCHANGED <<inputVars, favorites, fav_keys, artist_infos, candidates, recs, fi, ai,
                   results, callVars, now, outcome, issued, lastRes, lastResolve, topResp,
                   nicheInputs, nicheVars, traceVars>>

NextScore == Pick

SpecScore == InitScore /\ [][NextScore]_vars

ScoreOf(k) == Score(title, artist, results[k])

\* C16: the candidate selected has the highest score, and of the
\* candidates with that score it is the first in the order returned.
C16_HighestScoreFirstSeen ==
    pc = "picked" =>
        IF results = <<>> THEN best_pick.item = <<>>
        ELSE \E k \in 1..Len(results) :
               /\ best_pick.item = <<results[k]>>
               /\ best_pick.score = ScoreOf(k)
               /\ \A j \in 1..Len(results) : ~RatGreater(ScoreOf(j), ScoreOf(k))
               /\ \A j \in 1..(k - 1) : RatLess(ScoreOf(j), ScoreOf(k))

\* C16 witness: two different candidates share the highest score and the
\* first of them was selected, after a candidate with a lower score.
C16_Witness ==
    /\ pc = "picked"
    /\ Len(results) = 3
    /\ results[2] # results[3]
    /\ RatLess(ScoreOf(1), ScoreOf(2))
    /\ ~RatLess(ScoreOf(2), ScoreOf(3)) /\ ~RatLess(ScoreOf(3), ScoreOf(2))
    /\ best_pick.item = <<results[2]>>


(* --------------------------- Niche bucketizer ------------------------- *)
MaxResolved == 2      \* resolved favorite artists
MaxPerBucket == 1     \* per_bucket ranges over 0..MaxPerBucket

TrackPopMaxDefault == 35      \* track_pop_max: int = 35
ArtistPopMaxDefault == 45     \* artist_pop_max: int = 45

\* catalog records with their popularity
PopTrack(id, name, pop) ==
    [id |-> id, name |-> name, artists |-> <<ArB>>, ext |-> NoUrl, popularity |-> pop]
PopArtist(id, name, pop) == [id |-> id, name |-> name, popularity |-> pop]

G_at == PopTrack("t1", Str("c"), TrackPopMaxDefault)       \* at the ceiling
G_over == PopTrack("t2", Str("x"), TrackPopMaxDefault + 1)
G_zero == PopTrack("t3", Str("y"), 0)
R_at == PopArtist("ar2", Str("c"), ArtistPopMaxDefault)
R_over == PopArtist("ar3", Str("d"), ArtistPopMaxDefault + 1)
R_zero == PopArtist("ar4", Str("x"), 0)

\* what the top-tracks endpoint and the two artist lookups can answer
NicheTopLists == { <<>>, <<G_over, G_at>>, <<G_zero>> }
NicheArtistLists == { <<>>, <<R_over, R_at>>, <<R_zero>> }

\* resolved favorite artists (artist_id, artist_name, genres); a genre tag
\* can be blank
ResolvedPool ==
    { <<"ar1", Str("b"), <<>>>>,
      <<"ar1", Str("b"), <<Str("p"), Str(" ")>>>>,
      <<"ar5", Str("d"), <<Str("p")>>>> }

\* the distinct genre tags of the resolved artists, in order of appearance
RECURSIVE Distinct(_, _)
Distinct(s, seen) ==
    IF s = <<>> THEN <<>>
    ELSE IF Head(s) \in seen THEN Distinct(Tail(s), seen)
    ELSE <<Head(s)>> \o Distinct(Tail(s), seen \cup {Head(s)})

RECURSIVE GenresOf(_)
GenresOf(infos) == IF infos = <<>> THEN <<>> ELSE Head(infos)[3] \o GenresOf(Tail(infos))

genres == Distinct(GenresOf(artist_infos), {})

\* a ceiling that keeps what lies above it
KeepAtLeast(pop, ceiling) == pop >= ceiling

\* popularity <= trackPopMax, popularity <= artistPopMax
Keep(pop, ceiling) == pop <= ceiling

\* the display item of a track and of an artist, with the popularity of
\* the record it comes from
GemItem(track) ==
    LET core == extract_track_core(track)
    IN  [text |-> DisplayText(core.tname, core.a_name), url |-> core.turl,
         popularity |-> track.popularity]

ArtistItem(a) ==
    [text |-> a.name, url |-> <<"https://open.spotify.com/artist/", a.id>>,
     popularity |-> a.popularity]

RECURSIVE GemItems(_, _)
GemItems(top, ceiling) ==
    IF top = <<>> THEN <<>>
    ELSE (IF Keep(Head(top).popularity, ceiling) THEN <<GemItem(Head(top))>> ELSE <<>>)
         \o GemItems(Tail(top), ceiling)

RECURSIVE ArtistItems(_, _)
ArtistItems(as, ceiling) ==
    IF as = <<>> THEN <<>>
    ELSE (IF Keep(Head(as).popularity, ceiling) THEN <<ArtistItem(Head(as))>> ELSE <<>>)
         \o ArtistItems(Tail(as), ceiling)

\* the position after the k-th step of a bucket is done
StageAfter(stage, k) ==
    LET n == Len(artist_infos)
    IN  IF stage = "gems" /\ k <= n THEN "gems"
        ELSE IF stage = "gems" /\ n > 0 THEN "related"
        ELSE IF stage = "related" /\ k <= n THEN "related"
        ELSE IF stage # "genre" /\ genres # <<>> THEN "genre"
        ELSE IF stage = "genre" /\ k <= Len(genres) THEN "genre"
        ELSE "emit"

nicheUnchanged ==
    UNCHANGED <<inputVars, scoreVars, nicheInputs, traceVars, favorites, fav_keys, artist_infos,
                candidates, recs, fi, results, now, issued, lastRes, lastResolve, topResp>>

\* hidden gems: the top tracks of one resolved artist; a failed call
\* contributes nothing
HiddenGems ==
    /\ pc = "gems"
    /\ nicheUnchanged
    /\ UNCHANGED <<rising_related, rising_genre, gi, buckets, outcome>>
    /\ \E sc \in CallScripts : \E d \in Payloads(Get(sc), NicheTopLists) :
         LET r == Get(sc)
         IN  /\ Called(r)
             /\ hidden_gems' = IF r.ok THEN hidden_gems \o GemItems(Take(d, TopLimit), track_pop_max)
                               ELSE hidden_gems
             /\ ai' = IF StageAfter("gems", ai + 1) = "gems" THEN ai + 1 ELSE 1
             /\ pc' = StageAfter("gems", ai + 1)

\* rising stars (related): the artists related to one resolved artist
RisingRelated ==
    /\ pc = "related"
    /\ nicheUnchanged
    /\ UNCHANGED <<hidden_gems, rising_genre, gi, buckets, outcome>>
    /\ \E sc \in CallScripts : \E d \in Payloads(Get(sc), NicheArtistLists) :
         LET r == Get(sc)
         IN  /\ Called(r)
             /\ rising_related' = IF r.ok THEN rising_related \o ArtistItems(d, artist_pop_max)
                                  ELSE rising_related
             /\ ai' = ai + 1
             /\ pc' = StageAfter("related", ai + 1)

\* rising stars (by genre): search_artists_by_genre of one genre tag; a
\* blank tag is answered [] without a request (lines 170-172)
RisingByGenre ==
    /\ pc = "genre"
    /\ nicheUnchanged
    /\ UNCHANGED <<hidden_gems, rising_related, ai, buckets, outcome>>
    /\ gi' = gi + 1
    /\ pc' = StageAfter("genre", gi + 1)
    /\ IF strip(genres[gi]) = <<>>
       THEN /\ noCallUnchanged
            /\ UNCHANGED rising_genre
       ELSE \E sc \in CallScripts : \E d \in Payloads(Get(sc), NicheArtistLists) :
              LET r == Get(sc)
              IN  /\ Called(r)
                  /\ rising_genre' = IF r.ok THEN rising_genre \o ArtistItems(d, artist_pop_max)
                                     ELSE rising_genre

Bucket(label, items) == [label |-> label, items |-> items]

\* a mapping that leaves out the buckets with no items
EmittedNonEmpty(gems, related, genre, n) ==
    SelectSeq(<<Bucket("Hidden gems", Take(gems, n)),
                Bucket("Rising stars (related)", Take(related, n)),
                Bucket("Rising stars (by genre)", Take(genre, n))>>,
              LAMBDA b : b.items # <<>>)

\* the mapping returned: the three labels in definition order, each list
\* capped at per_bucket
Emitted(gems, related, genre, n) ==
    <<Bucket("Hidden gems", Take(gems, n)),
      Bucket("Rising stars (related)", Take(related, n)),
      Bucket("Rising stars (by genre)", Take(genre, n))>>

Emit ==
    /\ pc = "emit"
    /\ nicheUnchanged
    /\ buckets' = Emitted(hidden_gems, rising_related, rising_genre, per_bucket)
    /\ outcome' = "buckets"
    /\ pc' = "done"
    /\ UNCHANGED <<callVars, hidden_gems, rising_related, rising_genre, ai, gi>>

\* build_recommendation_buckets once the favorites are resolved
InitNiche ==
    /\ client_id \in { <<>>, Str("i") }
    /\ client_secret = Str("s")
    /\ max_recs = 0
    /\ favorites = <<>>
    /\ fi = 1
    /\ results = <<>>
    /\ best_pick = Best(<<>>, Rat(-1, 1))
    /\ ClientBlank
    /\ fav_keys = {}
    /\ artist_infos \in SeqsUpTo(ResolvedPool, MaxResolved)
    /\ candidates = <<>>
    /\ recs = <<>>
    /\ ai = 1
    /\ outcome = "running"
    /\ issued = <<>>
    /\ lastRes = "none"
    /\ lastResolve = Resolution(FALSE, "skipped", FALSE)
    /\ topResp = <<>>
    /\ track_pop_max \in {0, TrackPopMaxDefault}
    /\ artist_pop_max \in {0, ArtistPopMaxDefault}
    /\ per_bucket \in 0..MaxPerBucket
    /\ hidden_gems = <<>>
    /\ rising_related = <<>>
    /\ rising_genre = <<>>
    /\ gi = 1
    /\ buckets = <<>>
    /\ TraceBlank
    /\ pc = StageAfter("gems", 1)

NextNiche ==
    \/ HiddenGems
    \/ RisingRelated
    \/ RisingByGenre
    \/ Emit

SpecNiche == InitNiche /\ [][NextNiche]_vars

BucketLabels == <<"Hidden gems", "Rising stars (related)", "Rising stars (by genre)">>

C13_ItemsUnderCeiling ==
    /\ \A item \in Range(hidden_gems) : item.popularity <= track_pop_max
    /\ \A item \in Range(rising_related) \cup Range(rising_genre) :
         item.popularity <= artist_pop_max
    /\ Done =>
         /\ \A item \in Range(buckets[1].items) : item.popularity <= track_pop_max
         /\ \A k \in {2, 3} : \A item \in Range(buckets[k].items) :
              item.popularity <= artist_pop_max

\* a return whose buckets hold the records at the ceiling, taken from
\* answers that also held records above it
C13_Witness ==
    /\ Done
    /\ GemItem(G_at) \in Range(buckets[1].items)
    /\ ArtistItem(R_at) \in Range(buckets[2].items)
    /\ ArtistItem(R_at) \in Range(buckets[3].items)

(* --------------------------- the client alone ------------------------- *)
MaxCalls == 2         \* catalog calls of one client
ClientMaxTime == 20   \* the clock of the client runs over 0..ClientMaxTime
Lifetime == 20        \* expires_in of the token payload, in clock units

RetryHeaders == { NoHeader, Header("seconds", 1), Header("date", 0) }

\* the answers to one _api_get with the Retry-After header of a 429 and
\* the expires_in of the token payload
ClientScripts ==
    { [sc EXCEPT !.retry_after = h, !.expires_in = Lifetime] :
        sc \in Scripts, h \in RetryHeaders }

\* the call of the client of the file that is run
ClientGet(sc) ==
    IF variant = "app.py"
    THEN _api_get(sc, strip(client_id), strip(client_secret), access_token, expires_at, now)
    ELSE _api_get_spotify_client(sc, strip(client_id), strip(client_secret), access_token,
                                 expires_at, now)

\* the scripts that differ for the call: answers and headers that are
\* never read are left at their first value
ClientCallScripts ==
    { sc \in ClientScripts :
        /\ NeedsToken(access_token, expires_at, now) \/ sc.tok1 = "ok"
        /\ sc.r1 = "429" \/ sc.retry_after = NoHeader
        /\ ClientGet(sc).apiReqs > 0 \/ sc.r1 = "ok" }

\* whether a request of the call was answered 401
Answered401(sc, r) ==
    \/ r.apiReqs >= 1 /\ sc.r1 = "401"
    \/ r.apiReqs = 2 /\ sc.r2 = "401"

\* whether the call fetched a token: by _ensure_token, or by the refresh
FetchedToken(r) ==
    \/ r.ensures = 1 /\ r.apiReqs >= 1
    \/ r.refreshes = 1 /\ r.apiReqs = 2

\* one catalog call of a long-lived client
ApiCall ==
    /\ pc = "client"
    /\ run.calls < MaxCalls
    /\ \E sc \in ClientCallScripts :
         LET r == ClientGet(sc)
         IN  /\ Called(r)
             /\ lastCall' = [at |-> now, sc |-> sc, r |-> r]
             /\ run' = [calls |-> run.calls + 1,
                        fetches |-> run.fetches + r.tokenReqs,
                        saw401 |-> run.saw401 \/ Answered401(sc, r),
                        sawExpiry |-> run.sawExpiry
                                      \/ (access_token # None /\ now * 100 >= expires_at),
                        fetched_at |-> IF FetchedToken(r) THEN now ELSE run.fetched_at,
                        lifetime |-> IF FetchedToken(r) THEN sc.expires_in ELSE run.lifetime]
    /\ UNCHANGED <<inputVars, scoreVars, nicheInputs, nicheVars, variant, favorites, fav_keys,
                   artist_infos, candidates, recs, fi, ai, results, now, outcome, issued,
                   lastRes, lastResolve, topResp, pc>>

\* time passes between the calls
ClientTick ==
    /\ pc = "client"
    /\ now < ClientMaxTime
    /\ now' = now + 1
    /\ UNCHANGED <<inputVars, auxVars, favorites, fav_keys, artist_infos, candidates, recs,
                   fi, ai, results, callVars, outcome, issued, lastRes, lastResolve, topResp, pc>>

\* the run that uses the client ends
Finish ==
    /\ pc = "client"
    /\ pc' = "done"
    /\ UNCHANGED <<inputVars, auxVars, favorites, fav_keys, artist_infos, candidates, recs,
                   fi, ai, results, callVars, now, outcome, issued, lastRes, lastResolve,
                   topResp>>

\* SpotifyClient(client_id, client_secret) of app.py or of spotify_client.py
InitClient ==
    /\ client_id = Str("i")
    /\ client_secret = Str("s")
    /\ max_recs = 0
    /\ favorites = <<>>
    /\ fi = 1
    /\ results = <<>>
    /\ best_pick = Best(<<>>, Rat(-1, 1))
    /\ ClientBlank
    /\ LocalsBlank
    /\ NicheBlank
    /\ variant \in {"app.py", "spotify_client.py"}
    /\ lastCall = NoCall
    /\ run = NoRun
    /\ pc = "client"

NextClient ==
    \/ ApiCall
    \/ ClientTick
    \/ Finish

SpecClient == InitClient /\ [][NextClient]_vars

\* the first GET of the last call was sent and answered with this status
FirstAnswer(status) ==
    /\ run.calls > 0
    /\ lastCall.r.apiReqs >= 1
    /\ lastCall.sc.r1 = status

RefreshDeadline == run.fetched_at * 100 + run.lifetime * 95

\* a step that is one catalog call
CallStep == run'.calls = run.calls + 1

\* no token request before the first catalog call
Lazy == run.calls = 0 => ~tokenRequested /\ run.fetches = 0 /\ access_token = None

\* a catalog call asks for a token iff none is cached or the clock is at
\* or past the deadline of the cached one
EnsuredIffDue ==
    CallStep =>
        (lastCall'.r.ensures = 1 <=> (access_token = None \/ now * 100 >= RefreshDeadline))

\* the token a GET is first sent with was below its deadline when checked
SentBelowDeadline ==
    CallStep /\ lastCall'.r.apiReqs >= 1 =>
        \/ lastCall'.r.ensures = 1 /\ now * 100 < now * 100 + lastCall'.sc.expires_in * 95
        \/ lastCall'.r.ensures = 0 /\ access_token # None /\ now * 100 < RefreshDeadline

====
